---- MODULE Spec2Model ----
(***************************************************************************)
(* N-pendulum simulator: the dynamics model (src/math.rs), the linear      *)
(* solver and the RK4 integrator (src/logic.rs) and the request handler    *)
(* (src/ui.rs).                                                            *)
(*                                                                         *)
(* Numbers.  The program computes in f64.  A number of the model is a pair *)
(* <<p, q>>:                                                               *)
(*    q > 0, p # 0, gcd(|p|, q) = 1      the finite non-zero value p/q     *)
(*    <<0, 1>>, <<0, -1>>                +0.0 and -0.0                      *)
(*    <<1, 0>>, <<-1, 0>>, <<0, 0>>      +Inf, -Inf and NaN                 *)
(* Every arithmetic operation computes the exact result and hands it to    *)
(* Fl.  With rounding = TRUE, Fl rounds it to the nearest value (ties to   *)
(* even) of a binary floating-point format with Prec significant bits and  *)
(* exponents Emin..Emax, with gradual underflow and overflow to Inf: the   *)
(* IEEE 754 behaviour of f64 (53 bits, exponents -1022..1023), scaled down *)
(* so that the values stay enumerable.  With rounding = FALSE, Fl keeps    *)
(* the exact rational: the real arithmetic in which the equations of the   *)
(* dynamics are written.  Division by zero and the arithmetic of Inf and   *)
(* NaN follow IEEE 754 in both modes.                                      *)
(***************************************************************************)
EXTENDS Integers, Sequences, FiniteSets, TLC

VARIABLES
    rounding,   \* TRUE: f64-like rounding after every operation; FALSE: exact
    pc,         \* position of the operation under way
    n,          \* NPendulumSolver.n / SimParams.n / the order of the system
    masses,     \* NPendulumSolver.masses, slot 1 of the sequence is the dummy slot 0
    lengths,    \* NPendulumSolver.lengths, likewise
    initial_angles,    \* solve: argument, slot 1 of the sequence is the dummy slot 0
    initial_ang_vels,  \* solve: argument, likewise
    y,          \* solve: the current state, 2n numbers
    t,          \* solve: the sample times pushed so far
    sol,        \* solve: the states pushed so far
    curr_t,     \* solve: the running time
    dt,         \* solve: the fixed step
    n_points,   \* solve: the requested number of samples
    t_max,      \* solve: the requested end time
    steps,      \* solve: RK4 steps taken so far
    singular,   \* history: some derivative evaluation of this run met a zero pivot
    req,        \* simulate_handler: the request (SimParams), <<>> outside a request
    resp,       \* simulate_handler: the response (SimResponse), <<>> while none is sent
    mat,        \* solve_linear_system: the working matrix
    rhs,        \* solve_linear_system: the working right-hand side
    col,        \* solve_linear_system: the pivot column i (0-based)
    x,          \* solve_linear_system: the solution vector
    a0,         \* solve_linear_system: the caller's matrix a
    b0,         \* solve_linear_system: the caller's vector b
    zeroPivot,  \* history: a selected pivot was zero
    out,        \* what solve returned; the result of the dynamics function applied
    evaluated,  \* history: the states at which the last rk4_step called deriv, in call order
    deriv_calls \* history: calls of deriv made by this run of solve

vars == <<rounding, pc, n, masses, lengths, initial_angles, initial_ang_vels, y, t, sol, curr_t, dt, n_points,
          t_max, steps, singular, req, resp, mat, rhs, col, x, a0, b0,
          zeroPivot, out, evaluated, deriv_calls>>

-----------------------------------------------------------------------------
(* Bounds of the model *)

\* significant bits of the scaled-down binary format (f64: 53)
Prec == 4
\* largest exponent of the scaled-down binary format (f64: 1023)
Emax == 7

\* largest number of pendulums
MaxN == 2
\* largest number of samples requested
MaxPoints == 4

\* largest entry of the 2 x 2 systems handed to solve_linear_system
MaxEntry == 2

\* smallest normal exponent, as in IEEE 754 binary formats
Emin == 1 - Emax

-----------------------------------------------------------------------------
(* f64 values *)

NaN == <<0, 0>>
PInf == <<1, 0>>
NInf == <<-1, 0>>
Zero == <<0, 1>>
NegZero == <<0, -1>>
One == <<1, 1>>

RECURSIVE GCD(_, _)
GCD(u, v) == IF v = 0 THEN u ELSE GCD(v, u % v)

RECURSIVE Pow2(_)
Pow2(e) == IF e = 0 THEN 1 ELSE 2 * Pow2(e - 1)

IsNaN(v) == v = NaN
IsInf(v) == v[2] = 0 /\ v[1] # 0
IsFinite(v) == v[2] # 0
IsZero(v) == v[1] = 0 /\ v[2] # 0
\* the sign bit
Negative(v) == v[1] < 0 \/ (v[1] = 0 /\ v[2] < 0)

AbsInt(i) == IF i < 0 THEN -i ELSE i

\* the signed result of an operation whose exact magnitude is zero or infinite
SignedZero(neg) == IF neg THEN NegZero ELSE Zero
SignedInf(neg) == IF neg THEN NInf ELSE PInf

\* the exact rational P/Q (P > 0, Q > 0) in lowest terms, with its sign
Rat(neg, P, Q) ==
    LET d == GCD(P, Q)
    IN  <<(IF neg THEN -1 ELSE 1) * (P \div d), Q \div d>>

\* floor(log2(P/Q)) for P > 0, Q > 0
RECURSIVE Log2Up(_, _, _)
Log2Up(P, Q, e) == IF 2 * Q <= P THEN Log2Up(P, 2 * Q, e + 1) ELSE e
RECURSIVE Log2Down(_, _, _)
Log2Down(P, Q, e) == IF P < Q THEN Log2Down(2 * P, Q, e - 1) ELSE e
FloorLog2(P, Q) == IF P >= Q THEN Log2Up(P, Q, 0) ELSE Log2Down(P, Q, 0)

\* k quanta of 2^s with the sign neg: the value k * 2^s of the format
Quanta(neg, k, s) ==
    IF k = 0 THEN SignedZero(neg)
    ELSE IF s >= 0
         THEN (IF k * Pow2(s) >= Pow2(Emax + 1) THEN SignedInf(neg)
               ELSE Rat(neg, k * Pow2(s), 1))
         ELSE Rat(neg, k, Pow2(-s))

\* num/den rounded to the nearest integer, ties to even; k0 is its floor
TiesToEven(num, den, k0) ==
    LET r2 == 2 * (num - k0 * den)
    IN  IF r2 > den \/ (r2 = den /\ k0 % 2 = 1) THEN k0 + 1 ELSE k0
Nearest(num, den) == TiesToEven(num, den, num \div den)

\* P/Q rounded to a multiple of the quantum 2^s
RoundToQuantum(neg, P, Q, s) ==
    Quanta(neg, IF s >= 0 THEN Nearest(P, Q * Pow2(s)) ELSE Nearest(P * Pow2(-s), Q), s)

\* P/Q with floor(log2(P/Q)) = e rounded to Prec significant bits; below the
\* normal range the quantum stays that of the exponent Emin
RoundAtExponent(neg, P, Q, e) ==
    IF e > Emax THEN SignedInf(neg)
    ELSE RoundToQuantum(neg, P, Q, (IF e < Emin THEN Emin ELSE e) - Prec + 1)

\* P/Q (P > 0, Q > 0) rounded to the binary format, ties to even
RoundBinary(neg, P, Q) == RoundAtExponent(neg, P, Q, FloorLog2(P, Q))

\* P/Q (P > 0, Q > 0, d their gcd) as a value of the arithmetic in use
Reduced(neg, P, Q, d) ==
    IF rounding THEN RoundBinary(neg, P \div d, Q \div d)
    ELSE <<(IF neg THEN -1 ELSE 1) * (P \div d), Q \div d>>

\* the result of an operation whose exact value is (-1)^neg * P/Q, P >= 0, Q > 0
Fl(neg, P, Q) == IF P = 0 THEN SignedZero(neg) ELSE Reduced(neg, P, Q, GCD(P, Q))

\* a literal of the source text
Lit(p, q) == Fl(p < 0, AbsInt(p), q)

Neg(v) == IF v[1] = 0 THEN <<0, -v[2]>> ELSE <<-v[1], v[2]>>
Abs(v) == IF Negative(v) THEN Neg(v) ELSE v

Add(u, v) ==
    IF IsNaN(u) \/ IsNaN(v) THEN NaN
    ELSE IF IsInf(u) THEN (IF IsInf(v) /\ v # u THEN NaN ELSE u)
    ELSE IF IsInf(v) THEN v
    ELSE LET qu == AbsInt(u[2])
             qv == AbsInt(v[2])
             d == GCD(qu, qv)
             s == u[1] * (qv \div d) + v[1] * (qu \div d)
         IN  IF s = 0 THEN SignedZero(Negative(u) /\ Negative(v))
             ELSE Fl(s < 0, AbsInt(s), (qu \div d) * qv)

Sub(u, v) == Add(u, Neg(v))

Mul(u, v) ==
    LET neg == Negative(u) # Negative(v)
    IN  IF IsNaN(u) \/ IsNaN(v) THEN NaN
        ELSE IF IsInf(u) \/ IsInf(v)
             THEN (IF IsZero(u) \/ IsZero(v) THEN NaN ELSE SignedInf(neg))
        ELSE IF IsZero(u) \/ IsZero(v) THEN SignedZero(neg)
        ELSE LET d1 == GCD(AbsInt(u[1]), AbsInt(v[2]))
                 d2 == GCD(AbsInt(v[1]), AbsInt(u[2]))
             IN  Fl(neg, (AbsInt(u[1]) \div d1) * (AbsInt(v[1]) \div d2),
                         (AbsInt(u[2]) \div d2) * (AbsInt(v[2]) \div d1))

Div(u, v) ==
    LET neg == Negative(u) # Negative(v)
    IN  IF IsNaN(u) \/ IsNaN(v) THEN NaN
        ELSE IF IsInf(u) THEN (IF IsInf(v) THEN NaN ELSE SignedInf(neg))
        ELSE IF IsInf(v) THEN SignedZero(neg)
        ELSE IF IsZero(v) THEN (IF IsZero(u) THEN NaN ELSE SignedInf(neg))
        ELSE IF IsZero(u) THEN SignedZero(neg)
        ELSE LET d1 == GCD(AbsInt(u[1]), AbsInt(v[1]))
                 d2 == GCD(AbsInt(u[2]), AbsInt(v[2]))
             IN  Fl(neg, (AbsInt(u[1]) \div d1) * (AbsInt(v[2]) \div d2),
                         (AbsInt(u[2]) \div d2) * (AbsInt(v[1]) \div d1))

\* u > v and u == v of f64: false whenever an operand is NaN; -0.0 == +0.0
Gt(u, v) ==
    /\ ~IsNaN(u) /\ ~IsNaN(v)
    /\ IF IsInf(u) \/ IsInf(v)
       THEN u # v /\ (u = PInf \/ v = NInf)
       ELSE LET d == GCD(AbsInt(u[2]), AbsInt(v[2]))
            IN  u[1] * (AbsInt(v[2]) \div d) > v[1] * (AbsInt(u[2]) \div d)
Eq(u, v) ==
    /\ ~IsNaN(u) /\ ~IsNaN(v)
    /\ IF IsInf(u) \/ IsInf(v) THEN u = v
       ELSE u[1] = v[1] /\ (u[1] = 0 \/ u[2] = v[2])

-----------------------------------------------------------------------------
(* Vectors.  A Rust Vec or slice v is the sequence s with v[i] = s[i + 1]. *)

At(v, i) == v[i + 1]
\* &v[k..]
SliceFrom(v, k) == SubSeq(v, k + 1, Len(v))
\* &v[lo..hi]
Slice(v, lo, hi) == SubSeq(v, lo + 1, hi)
\* vec![e; len]
RECURSIVE Filled(_, _)
Filled(e, len) == IF len = 0 THEN <<>> ELSE Append(Filled(e, len - 1), e)
Max(i, j) == IF i >= j THEN i ELSE j
\* the vector <<F(1), ..., F(len)>>, every element computed once
RECURSIVE Build(_, _)
Build(F(_), len) == IF len = 0 THEN <<>> ELSE Append(Build(F, len - 1), F(len))

-----------------------------------------------------------------------------
(* f64::sin, f64::cos, f64::to_radians.  The library computes a rounded     *)
(* approximation of the function; the model reduces the argument by a      *)
(* multiple of 2 pi (pi taken as 355/113), folds it into [-pi/2, pi/2] and *)
(* evaluates the Taylor polynomial x (1 - x^2/6) or 1 - x^2/2 (1 - x^2/12).*)
(* It keeps what the library guarantees: sin(+-0) = +-0, cos(0) = 1, sin   *)
(* is odd, cos is even (both work on |x| and restore the sign), and NaN    *)
(* for a NaN or infinite argument.                                         *)

Pi == Lit(355, 113)
HalfPi == Lit(355, 226)

\* v - k * 2 pi for the integer k nearest to v / (2 pi), v >= 0 finite: one rounding
ReduceTwoPi(v) ==
    LET p == v[1]
        q == AbsInt(v[2])
        k == (2 * p * 113 + 710 * q) \div (2 * 710 * q)
        d == p * 113 - k * 710 * q
    IN  Fl(d < 0, AbsInt(d), 113 * q)

SinPoly(r) == Mul(r, Sub(One, Div(Mul(r, r), Lit(6, 1))))
CosPoly(r) ==
    Sub(One, Mul(Div(Mul(r, r), Lit(2, 1)), Sub(One, Div(Mul(r, r), Lit(12, 1)))))

WithSign(neg, v) == IF neg THEN Neg(v) ELSE v
\* a >= 0 brought into [-pi, pi], and a in [0, pi] folded into [0, pi/2]
Reduce(a) == IF Gt(a, HalfPi) THEN ReduceTwoPi(a) ELSE a
Fold(a) == IF Gt(a, HalfPi) THEN Sub(Pi, a) ELSE a

\* sin and cos of r in [-pi, pi]
SinReduced(r) == WithSign(Negative(r), SinPoly(Fold(Abs(r))))
CosFolded(a) == WithSign(Gt(a, HalfPi), CosPoly(Fold(a)))

Sin(v) ==
    IF ~IsFinite(v) THEN NaN
    ELSE WithSign(Negative(v), SinReduced(Reduce(Abs(v))))

Cos(v) ==
    IF ~IsFinite(v) THEN NaN
    ELSE CosFolded(Abs(Reduce(Abs(v))))

\* f64::to_radians: self * (PI / 180)
RadsPerDeg == Lit(71, 4068)
to_radians(d) == Mul(d, RadsPerDeg)

-----------------------------------------------------------------------------
(* src/math.rs *)

\* lsum: sum = 0.0; for &i in l { sum += i }
RECURSIVE lsum_from(_, _, _)
lsum_from(l, i, sum) ==
    IF i > Len(l) THEN sum ELSE lsum_from(l, i + 1, Add(sum, l[i]))
lsum(l) == lsum_from(l, 1, Zero)

\* NPendulumMath::new
NPendulumMath_new(nn, ms, ls, angles, ang_vels) ==
    [g |-> Lit(981, 100), n |-> nn, masses |-> ms, lengths |-> ls,
     angles |-> angles, ang_vels |-> ang_vels]

\* set_mass_matrix's entry with the mass summed from the row alone: what
\* let k = row would compute
mass_term_from_row(self, row, column) ==
    Mul(Mul(lsum(SliceFrom(self.masses, row)),
            Mul(At(self.lengths, row), At(self.lengths, column))),
        Cos(Sub(At(self.angles, row), At(self.angles, column))))

\* one entry of set_mass_matrix, row and column in 1..n
mass_term(self, row, column) ==
    LET k == Max(row, column)
        mass == lsum(SliceFrom(self.masses, k))
        length_term == Mul(At(self.lengths, row), At(self.lengths, column))
        cos_term == Cos(Sub(At(self.angles, row), At(self.angles, column)))
    IN  Mul(Mul(mass, length_term), cos_term)

set_mass_matrix(self) ==
    Build(LAMBDA row : Build(LAMBDA column : mass_term(self, row, column), self.n),
          self.n)

\* one term of the inner loop of set_centripetal_matrix
centripetal_term(self, i, j) ==
    LET m_val == lsum(SliceFrom(self.masses, Max(i, j)))
        lilj == Mul(At(self.lengths, i), At(self.lengths, j))
        sin_val == Sin(Sub(At(self.angles, i), At(self.angles, j)))
        velsq == Mul(At(self.ang_vels, j), At(self.ang_vels, j))
    IN  Mul(Mul(Mul(m_val, lilj), sin_val), velsq)

\* f_term = 0.0; for j in 1..=n { f_term += term }
RECURSIVE f_term_from(_, _, _, _)
f_term_from(self, i, j, f_term) ==
    IF j > self.n THEN f_term
    ELSE f_term_from(self, i, j + 1, Add(f_term, centripetal_term(self, i, j)))

set_centripetal_matrix(self) ==
    Build(LAMBDA i : f_term_from(self, i, 1, Zero), self.n)

\* set_grav_matrix with f64::cos in place of f64::sin
set_grav_matrix_cos(self) ==
    Build(LAMBDA i :
            Mul(Mul(Mul(lsum(SliceFrom(self.masses, i)), self.g), At(self.lengths, i)),
                Cos(At(self.angles, i))),
          self.n)

set_grav_matrix(self) ==
    Build(LAMBDA i :
            LET mass == lsum(SliceFrom(self.masses, i))
            IN  Mul(Mul(Mul(mass, self.g), At(self.lengths, i)), Sin(At(self.angles, i))),
          self.n)

-----------------------------------------------------------------------------
(* src/logic.rs: solve_linear_system.  A matrix is a sequence of rows; the  *)
(* pivot column i is 0-based as in the source.                             *)

\* the pivot search on the signed entries: what mat[k][i] > mat[max_row][i]
\* without .abs() would compute
RECURSIVE find_max_row_signed(_, _, _, _, _)
find_max_row_signed(m, nn, i, k, max_row) ==
    IF k >= nn THEN max_row
    ELSE find_max_row_signed(m, nn, i, k + 1,
                             IF Gt(At(At(m, k), i), At(At(m, max_row), i))
                             THEN k ELSE max_row)

\* for k in (i + 1)..n { if mat[k][i].abs() > mat[max_row][i].abs() { max_row = k } }
RECURSIVE find_max_row(_, _, _, _, _)
find_max_row(m, nn, i, k, max_row) ==
    IF k >= nn THEN max_row
    ELSE find_max_row(m, nn, i, k + 1,
                      IF Gt(Abs(At(At(m, k), i)), Abs(At(At(m, max_row), i)))
                      THEN k ELSE max_row)

\* Vec::swap
swap(v, i, j) ==
    Build(LAMBDA k : IF k = i + 1 THEN At(v, j)
                     ELSE IF k = j + 1 THEN At(v, i) ELSE v[k], Len(v))

\* the pivot search with the swap of the matrix alone: what leaving out
\* rhs.swap(i, max_row) would compute
pivot_step_mat_only(m, r, nn, i) ==
    [mat |-> swap(m, i, find_max_row(m, nn, i, i + 1, i)), rhs |-> r]

\* the pivot search and the two swaps for column i
pivot_step(m, r, nn, i) ==
    LET max_row == find_max_row(m, nn, i, i + 1, i)
    IN  [mat |-> swap(m, i, max_row), rhs |-> swap(r, i, max_row)]

\* let c = -mat[k][i] / mat[i][i]
coefficient(m, i, k) == Div(Neg(At(At(m, k), i)), At(At(m, i), i))

\* the elimination loop for column i: every row k below the pivot row
eliminate_row(m, nn, i, k) ==
    LET c == coefficient(m, i, k)
    IN  Build(LAMBDA j1 :
                IF j1 - 1 < i \/ j1 - 1 >= nn THEN At(At(m, k), j1 - 1)
                ELSE IF j1 - 1 = i THEN Zero
                ELSE Add(At(At(m, k), j1 - 1), Mul(c, At(At(m, i), j1 - 1))),
              Len(At(m, k)))
eliminate_step(m, r, nn, i) ==
    [mat |-> Build(LAMBDA k1 :
                     IF k1 - 1 <= i \/ k1 - 1 >= nn THEN m[k1]
                     ELSE eliminate_row(m, nn, i, k1 - 1), Len(m)),
     rhs |-> Build(LAMBDA k1 :
                     IF k1 - 1 <= i \/ k1 - 1 >= nn THEN r[k1]
                     ELSE Add(r[k1], Mul(coefficient(m, i, k1 - 1), At(r, i))), Len(r))]

\* the forward elimination from column i on; zero records a zero pivot
RECURSIVE forward(_, _, _, _, _)
forward(m, r, nn, i, zero) ==
    IF i >= nn THEN [mat |-> m, rhs |-> r, zero |-> zero]
    ELSE LET p == pivot_step(m, r, nn, i)
             e == eliminate_step(p.mat, p.rhs, nn, i)
         IN  forward(e.mat, e.rhs, nn, i + 1, zero \/ IsZero(At(At(p.mat, i), i)))

\* sum_ax = 0.0; for j in i+1..n { sum_ax += mat[i][j] * x[j] }
RECURSIVE sum_ax_from(_, _, _, _, _, _)
sum_ax_from(m, xs, nn, i, j, sum_ax) ==
    IF j >= nn THEN sum_ax
    ELSE sum_ax_from(m, xs, nn, i, j + 1, Add(sum_ax, Mul(At(At(m, i), j), At(xs, j))))

\* the back-substitution from row i down to row 0
RECURSIVE back_substitute(_, _, _, _, _)
back_substitute(m, r, nn, i, xs) ==
    IF i < 0 THEN xs
    ELSE LET sum_ax == sum_ax_from(m, xs, nn, i, i + 1, Zero)
             xi == Div(Sub(At(r, i), sum_ax), At(At(m, i), i))
         IN  back_substitute(m, r, nn, i - 1, [xs EXCEPT ![i + 1] = xi])

solve_linear_system(a, b) ==
    LET nn == Len(b)
        f == forward(a, b, nn, 0, FALSE)
    IN  back_substitute(f.mat, f.rhs, nn, nn - 1, Filled(Zero, nn))

\* whether solve_linear_system(a, b) selects a zero pivot for some column
meets_zero_pivot(a, b) == forward(a, b, Len(b), 0, FALSE).zero

-----------------------------------------------------------------------------
(* src/logic.rs: NPendulumSolver *)

NPendulumSolver_new(nn, ms, ls) == [n |-> nn, masses |-> ms, lengths |-> ls]

\* the system with rhs[i] = c_vec[i] + g_vec[i]: the negation left out
system_unnegated(self, angles, ang_vels) ==
    [m_mat |-> set_mass_matrix(
                   NPendulumMath_new(self.n, self.masses, self.lengths, angles, ang_vels)),
     rhs |-> Build(LAMBDA i :
                 Add(set_centripetal_matrix(NPendulumMath_new(
                         self.n, self.masses, self.lengths, angles, ang_vels))[i],
                     set_grav_matrix(NPendulumMath_new(
                         self.n, self.masses, self.lengths, angles, ang_vels))[i]),
                 self.n)]

\* the system M alpha = rhs that accelerations builds
system(self, angles, ang_vels) ==
    LET math == NPendulumMath_new(self.n, self.masses, self.lengths, angles, ang_vels)
        c_vec == set_centripetal_matrix(math)
        g_vec == set_grav_matrix(math)
    IN  [m_mat |-> set_mass_matrix(math),
         rhs |-> Build(LAMBDA i : Neg(Add(c_vec[i], g_vec[i])), self.n)]

accelerations(self, angles, ang_vels) ==
    LET s == system(self, angles, ang_vels)
    IN  solve_linear_system(s.m_mat, s.rhs)

\* the 1-indexed vectors deriv builds from the state
full_angles(self, yy) == <<Zero>> \o Slice(yy, 0, self.n)
full_ang_vels(self, yy) == <<Zero>> \o Slice(yy, self.n, 2 * self.n)

deriv(self, yy, tt) ==
    LET angles == full_angles(self, yy)
        ang_vels == full_ang_vels(self, yy)
        alpha == accelerations(self, angles, ang_vels)
    IN  Slice(ang_vels, 1, self.n + 1) \o alpha

\* whether the derivative evaluation at yy meets a singular mass matrix
deriv_singular(self, yy) ==
    LET s == system(self, full_angles(self, yy), full_ang_vels(self, yy))
    IN  meets_zero_pivot(s.m_mat, s.rhs)

\* y + h * k, element by element
axpy(yy, h, k) == Build(LAMBDA i : Add(yy[i], Mul(h, k[i])), Len(yy))

\* rk4_step from each of its let bindings on, last binding first: the states
\* at which it evaluates deriv (evals) and the weighted sum y_new
rk4_y_new(yy, h, evals, k1, k2, k3, k4) ==
    [evals |-> evals,
     y_new |-> Build(LAMBDA i :
                  Add(yy[i], Mul(Div(h, Lit(6, 1)),
                      Add(Add(Add(k1[i], Mul(Lit(2, 1), k2[i])), Mul(Lit(2, 1), k3[i])),
                          k4[i]))),
                  Len(yy))]
rk4_k4(self, yy, tt, h, k1, k2, k3, y2, y3, y4) ==
    rk4_y_new(yy, h, <<yy, y2, y3, y4>>, k1, k2, k3, deriv(self, y4, Add(tt, h)))
rk4_y4(self, yy, tt, h, k1, k2, k3, y2, y3) ==
    rk4_k4(self, yy, tt, h, k1, k2, k3, y2, y3, axpy(yy, h, k3))
rk4_k3(self, yy, tt, h, k1, k2, y2, y3) ==
    rk4_y4(self, yy, tt, h, k1, k2, deriv(self, y3, Add(tt, Mul(Lit(1, 2), h))), y2, y3)
\* the third evaluation point from k1: what y[i] + 0.5 * dt * k1[i] in the
\* place of k2[i] would compute
rk4_y3_from_k1(self, yy, tt, h, k1, k2, y2) ==
    rk4_k3(self, yy, tt, h, k1, k2, y2, axpy(yy, Mul(Lit(1, 2), h), k1))
rk4_y3(self, yy, tt, h, k1, k2, y2) ==
    rk4_k3(self, yy, tt, h, k1, k2, y2, axpy(yy, Mul(Lit(1, 2), h), k2))
rk4_k2(self, yy, tt, h, k1, y2) ==
    rk4_y3(self, yy, tt, h, k1, deriv(self, y2, Add(tt, Mul(Lit(1, 2), h))), y2)
rk4_y2(self, yy, tt, h, k1) ==
    rk4_k2(self, yy, tt, h, k1, axpy(yy, Mul(Lit(1, 2), h), k1))
rk4_stages(self, yy, tt, h) == rk4_y2(self, yy, tt, h, deriv(self, yy, tt))

rk4_step(self, yy, tt, h) == rk4_stages(self, yy, tt, h).y_new

-----------------------------------------------------------------------------
(* Inputs *)

\* the integer i as a number; small integers are exact in both arithmetics
Num(i) == IF i = 0 THEN Zero ELSE <<i, 1>>

\* k entries e behind the dummy slot, and the same with entry j replaced by e2
Uniform(e, k) == <<Zero>> \o Filled(e, k)
WithAt(v, j, e2) == SubSeq(v, 1, j) \o <<e2>> \o SubSeq(v, j + 2, Len(v))

Ns == 2..MaxN
PointCounts == 1..MaxPoints
TMaxValues == {Num(1), Num(3)}
\* all masses 1; the last mass 2; one mass 0
MassVecs(k) ==
    {Uniform(Num(1), k), WithAt(Uniform(Num(1), k), k, Num(2))}
        \cup {WithAt(Uniform(Num(1), k), j, Num(0)) : j \in 1..k}
\* all lengths 1; the last length 2; the first length 0
LengthVecs(k) ==
    {Uniform(Num(1), k), WithAt(Uniform(Num(1), k), k, Num(2)),
     WithAt(Uniform(Num(1), k), 1, Num(0))}
\* hanging at rest; the first pendulum at 1 rad; all at 1 rad
AngleVecs(k) ==
    {Uniform(Num(0), k), WithAt(Uniform(Num(0), k), 1, Num(1)), Uniform(Num(1), k)}
\* at rest; the last pendulum at 1 rad/s
VelVecs(k) == {Uniform(Num(0), k), WithAt(Uniform(Num(0), k), k, Num(1))}

-----------------------------------------------------------------------------
(* src/logic.rs: NPendulumSolver::solve, one action per step of its loop *)

self == NPendulumSolver_new(n, masses, lengths)

\* a step count of n_points: what for _ in 0..n_points would take
num_steps_inclusive(np) == np

\* let num_steps = n_points - 1
num_steps_of(np) == np - 1

\* y[0..n] = initial_angles[1..n+1]; y[n..2n] = initial_ang_vels[1..n+1]
initial_state(nn, ia, iv) == Slice(ia, 1, nn + 1) \o Slice(iv, 1, nn + 1)

\* lines 147-155: the step, the first sample
SolveBegin ==
    /\ pc = "call"
    /\ Len(initial_angles) >= n + 1
    /\ Len(initial_ang_vels) >= n + 1
    /\ LET num_steps == num_steps_of(n_points)
           y0 == initial_state(n, initial_angles, initial_ang_vels)
       IN  /\ dt' = Div(t_max, Num(num_steps))
           /\ t' = <<Zero>>
           /\ y' = y0
           /\ sol' = <<y0>>
    /\ curr_t' = Zero
    /\ steps' = 0
    /\ pc' = "loop"
    /\ UNCHANGED <<rounding, n, masses, lengths, initial_angles, initial_ang_vels,
                   n_points, t_max, singular, req, resp, mat, rhs, col, x, a0, b0,
                   zeroPivot, out,
                   evaluated, deriv_calls>>

\* lines 156-162: one iteration of for _ in 1..n_points
SolveStep ==
    /\ pc = "loop"
    /\ steps < num_steps_of(n_points)
    /\ Len(lengths) >= n + 1
    /\ \E st \in {rk4_stages(self, y, curr_t, dt)} :
           /\ y' = st.y_new
           /\ sol' = Append(sol, st.y_new)
           /\ singular' = (singular \/ \E i \in 1..4 : deriv_singular(self, st.evals[i]))
           /\ evaluated' = st.evals
           /\ deriv_calls' = deriv_calls + Len(st.evals)
    /\ curr_t' = Add(curr_t, dt)
    /\ t' = Append(t, Add(curr_t, dt))
    /\ steps' = steps + 1
    /\ UNCHANGED <<rounding, pc, n, masses, lengths, initial_angles, initial_ang_vels,
                   dt, n_points, t_max, req, resp, mat, rhs, col, x, a0, b0,
                   zeroPivot, out>>

\* line 163: (t, sol) goes back to the caller
SolveReturn ==
    /\ pc = "loop"
    /\ steps = num_steps_of(n_points)
    /\ pc' = "returned"
    /\ out' = [t |-> t, sol |-> sol]
    /\ UNCHANGED <<rounding, n, masses, lengths, initial_angles, initial_ang_vels,
                   y, t, sol, curr_t, dt, n_points, t_max, steps, singular, req, resp,
                   mat, rhs, col, x, a0, b0, zeroPivot,
                   evaluated, deriv_calls>>

\* the variables of the operations that are not under way
IdleSolve ==
    /\ y = <<>> /\ t = <<>> /\ sol = <<>> /\ curr_t = Zero /\ dt = Zero
    /\ steps = 0 /\ singular = FALSE
    /\ evaluated = <<>> /\ deriv_calls = 0
IdleHandler == req = <<>> /\ resp = <<>>
IdleLinear ==
    /\ mat = <<>> /\ rhs = <<>> /\ col = 0 /\ x = <<>> /\ a0 = <<>> /\ b0 = <<>>
    /\ zeroPivot = FALSE

\* a caller has built a solver with one slot per pendulum behind the dummy
\* slot and calls solve
Init ==
    /\ rounding = TRUE
    /\ pc = "call"
    /\ n \in Ns
    /\ masses \in MassVecs(n)
    /\ lengths \in LengthVecs(n)
    /\ initial_angles \in AngleVecs(n)
    /\ initial_ang_vels \in VelVecs(n)
    /\ t_max \in TMaxValues
    /\ n_points \in PointCounts
    /\ IdleSolve /\ IdleHandler /\ IdleLinear
    /\ out = <<>>

Next == SolveBegin \/ SolveStep \/ SolveReturn

Spec == Init /\ [][Next]_vars

-----------------------------------------------------------------------------
(* Properties of NPendulumSolver::solve *)

AllZero(v) == \A i \in 1..Len(v) : Eq(v[i], Zero)
AllPositive(v, nn) == \A i \in 1..nn : Gt(At(v, i), Zero)
\* v = k * d as real numbers, v and d finite
ExactMultiple(v, k, d) ==
    /\ IsFinite(v) /\ IsFinite(d)
    /\ v[1] * AbsInt(d[2]) = k * d[1] * AbsInt(v[2])

\* C1: for n_points >= 2 and t_max > 0, solve terminates after exactly
\* n_points - 1 RK4 steps (the loop has taken at most n_points - 1 steps
\* while it runs, each step adds one, and it returns with exactly
\* n_points - 1) and returns n_points times and n_points states; time 0 is 0
\* and state 0 is the initial angles of pendulums 1..n followed by the
\* initial velocities of pendulums 1..n.
C1_SolveSamples ==
    (n_points >= 2 /\ Gt(t_max, Zero)) =>
        /\ pc = "loop" => /\ steps <= n_points - 1
                          /\ Len(t) = steps + 1 /\ Len(sol) = steps + 1
        /\ pc = "returned" =>
            /\ steps = n_points - 1
            /\ Len(out.t) = n_points
            /\ Len(out.sol) = n_points
            /\ out.t[1] = Zero
            /\ Len(out.sol[1]) = 2 * n
            /\ \A i \in 1..n : /\ out.sol[1][i] = initial_angles[i + 1]
                               /\ out.sol[1][n + i] = initial_ang_vels[i + 1]
C1_Witness ==
    /\ pc = "returned" /\ n_points = MaxPoints /\ steps = MaxPoints - 1
    /\ initial_angles[2] # initial_ang_vels[n + 1]
    /\ Len(out.sol) = MaxPoints

\* C3: a run of solve that meets a singular mass matrix at some derivative
\* evaluation aborts: the caller receives no trajectory.
C3_SingularRunAborts == singular => pc # "returned"

\* C7: from all-zero initial angles and velocities, with positive masses and
\* lengths, every state of the trajectory is the all-zero state.
C7_EquilibriumStays ==
    (/\ pc # "call"
     /\ AllZero(initial_angles) /\ AllZero(initial_ang_vels)
     /\ AllPositive(masses, n) /\ AllPositive(lengths, n))
    => \A k \in 1..Len(sol) : Len(sol[k]) = 2 * n /\ AllZero(sol[k])
C7_Witness ==
    /\ pc = "returned" /\ n_points = MaxPoints /\ Len(out.sol) = MaxPoints
    /\ AllZero(initial_angles) /\ AllZero(initial_ang_vels)
    /\ AllPositive(masses, n) /\ AllPositive(lengths, n)
    /\ At(masses, n) = Num(2) /\ At(lengths, n) = Num(2)
    /\ AllZero(out.sol[MaxPoints])

\* C8: sample k of the returned trajectory has time k * dt, dt being
\* t_max / (n_points - 1): the times increase strictly, are evenly spaced,
\* and the last one is t_max.
C8_TimesEvenlySpaced ==
    (pc = "returned" /\ n_points >= 2) =>
        /\ \A k \in 0..(n_points - 1) : ExactMultiple(out.t[k + 1], k, dt)
        /\ \A k \in 1..(n_points - 1) : Gt(out.t[k + 1], out.t[k])
        /\ Eq(out.t[n_points], t_max)


\* the weighted sum y + dt/6 (k1 + 2 k2 + 2 k3 + k4), element by element
WeightedSum(yy, h, k1, k2, k3, k4) ==
    Build(LAMBDA i :
            Add(yy[i], Mul(Div(h, Num(6)),
                Add(Add(Add(k1[i], Mul(Num(2), k2[i])), Mul(Num(2), k3[i])), k4[i]))),
          Len(yy))
\* y + c k, element by element
Shifted(yy, c, k) == Build(LAMBDA i : Add(yy[i], Mul(c, k[i])), Len(yy))
\* f of the RK4 formula: the derivative at a state
F(yy) == deriv(self, yy, Zero)

\* C11: every RK4 step calls deriv four times, at y, y + dt/2 k1,
\* y + dt/2 k2 and y + dt k3 in this order, and produces
\* y + dt/6 (k1 + 2 k2 + 2 k3 + k4); the y of a step is the state the step
\* before produced (the initial state for the first); a run has made 4 calls
\* per step taken, 4 (n_points - 1) when it returns.
C11_RK4Steps ==
    /\ pc \in {"loop", "returned"} =>
         /\ deriv_calls = 4 * steps
         /\ steps >= 1 =>
              /\ Len(evaluated) = 4
              /\ evaluated[1] = sol[steps]
              /\ evaluated[2] = Shifted(evaluated[1], Div(dt, Num(2)), F(evaluated[1]))
              /\ evaluated[3] = Shifted(evaluated[1], Div(dt, Num(2)), F(evaluated[2]))
              /\ evaluated[4] = Shifted(evaluated[1], dt, F(evaluated[3]))
              /\ sol[steps + 1] = WeightedSum(evaluated[1], dt, F(evaluated[1]),
                                              F(evaluated[2]), F(evaluated[3]),
                                              F(evaluated[4]))
              /\ y = sol[steps + 1]
    /\ pc = "returned" => deriv_calls = 4 * (n_points - 1)
C11_Witness ==
    /\ pc = "returned" /\ n_points = MaxPoints /\ deriv_calls = 4 * (MaxPoints - 1)
    /\ \A i \in 1..Len(y) : IsFinite(y[i]) /\ ~IsZero(y[i])
    /\ evaluated[2] # evaluated[1] /\ evaluated[3] # evaluated[2] /\ evaluated[4] # evaluated[3]
    /\ evaluated[4] # evaluated[2]
    /\ evaluated[1] # sol[1]

-----------------------------------------------------------------------------
(* src/logic.rs: solve_linear_system as a process: one action for the pivot *)
(* search and swap of a column, one for its elimination loop, one for the  *)
(* back-substitution.                                                      *)

\* lines 25-35
LinPivot ==
    /\ pc = "pivot"
    /\ LET p == pivot_step(mat, rhs, n, col)
       IN  /\ mat' = p.mat
           /\ rhs' = p.rhs
           /\ zeroPivot' = (zeroPivot \/ IsZero(At(At(p.mat, col), col)))
    /\ pc' = "eliminate"
    /\ UNCHANGED <<rounding, n, masses, lengths, initial_angles, initial_ang_vels,
                   y, t, sol, curr_t, dt, n_points, t_max, steps, singular, req,
                   resp, col, x, a0, b0, out,
                   evaluated, deriv_calls>>

\* lines 37-50, and the step of for i in 0..n
LinEliminate ==
    /\ pc = "eliminate"
    /\ LET e == eliminate_step(mat, rhs, n, col)
       IN  /\ mat' = e.mat
           /\ rhs' = e.rhs
    /\ col' = col + 1
    /\ pc' = IF col + 1 < n THEN "pivot" ELSE "back"
    /\ UNCHANGED <<rounding, n, masses, lengths, initial_angles, initial_ang_vels,
                   y, t, sol, curr_t, dt, n_points, t_max, steps, singular, req,
                   resp, x, a0, b0, zeroPivot, out,
                   evaluated, deriv_calls>>

\* lines 53-63
LinBackSubstitute ==
    /\ pc = "back"
    /\ x' = back_substitute(mat, rhs, n, n - 1, Filled(Zero, n))
    /\ pc' = "solved"
    /\ UNCHANGED <<rounding, n, masses, lengths, initial_angles, initial_ang_vels,
                   y, t, sol, curr_t, dt, n_points, t_max, steps, singular, req,
                   resp, mat, rhs, col, a0, b0, zeroPivot, out,
                   evaluated, deriv_calls>>

\* the entries of the systems of order 2 and of order 3
Entries(k) == IF k = 2 THEN {Num(i) : i \in (-1)..MaxEntry} ELSE {Num(0), Num(1)}
Orders == {2, 3}

\* a caller hands a square system of order n = b.len(); lines 18-20 copy it
InitLinear ==
    /\ rounding \in BOOLEAN
    /\ pc = "pivot"
    /\ n \in Orders
    /\ a0 \in [1..n -> [1..n -> Entries(n)]]
    /\ b0 \in [1..n -> Entries(n)]
    /\ mat = a0
    /\ rhs = b0
    /\ col = 0
    /\ x = <<>>
    /\ zeroPivot = FALSE
    /\ masses = <<>> /\ lengths = <<>> /\ initial_angles = <<>>
    /\ initial_ang_vels = <<>> /\ t_max = Zero /\ n_points = 0
    /\ IdleSolve /\ IdleHandler
    /\ out = <<>>

NextLinear == LinPivot \/ LinEliminate \/ LinBackSubstitute

SpecLinear == InitLinear /\ [][NextLinear]_vars

-----------------------------------------------------------------------------
(* Properties of solve_linear_system *)

\* the determinant of an integer matrix of order 2 or 3
Det(a) ==
    LET e(i, j) == a[i][j][1]
    IN  IF Len(a) = 2 THEN e(1, 1) * e(2, 2) - e(1, 2) * e(2, 1)
        ELSE   e(1, 1) * (e(2, 2) * e(3, 3) - e(2, 3) * e(3, 2))
             - e(1, 2) * (e(2, 1) * e(3, 3) - e(2, 3) * e(3, 1))
             + e(1, 3) * (e(2, 1) * e(3, 2) - e(2, 2) * e(3, 1))
Invertible(a) == Det(a) # 0

\* row . v
RECURSIVE DotFrom(_, _, _, _)
DotFrom(row, v, j, acc) ==
    IF j > Len(v) THEN acc ELSE DotFrom(row, v, j + 1, Add(acc, Mul(row[j], v[j])))
Dot(row, v) == DotFrom(row, v, 1, Zero)

\* C2: once the pivot selected for some column is zero, the solver fails
\* with SingularSystem: it never goes on to divide by the pivot and return a
\* vector.
C2_ZeroPivotFails == zeroPivot => pc # "solved"

\* C6: in exact arithmetic, for every invertible M and every b,
\* solve_linear_system(M, b) returns x with M x = b, also when a zero on the
\* diagonal makes a row swap necessary.
C6_SolvesSystem ==
    (pc = "solved" /\ ~rounding /\ Invertible(a0)) =>
        /\ Len(x) = n
        /\ \A i \in 1..n : IsFinite(x[i]) /\ Eq(Dot(a0[i], x), b0[i])
C6_Witness ==
    /\ pc = "solved" /\ ~rounding /\ Invertible(a0) /\ n = 3
    /\ IsZero(a0[1][1]) /\ IsZero(a0[2][2])
    /\ ~AllZero(x)


\* C12: for every pivot column i, the pivot step swaps row i of the matrix
\* and entry i of the right-hand side with the same row r of i..n-1, and
\* afterwards no entry of column i in rows i..n-1 exceeds the entry at (i, i)
\* in absolute value; once the elimination for column i is done, every entry
\* below the diagonal in columns 0..i is zero.
C12_PivotingInvariants ==
    [][/\ (pc = "pivot" /\ pc' = "eliminate") =>
            /\ \E r \in col..(n - 1) :
                   mat' = swap(mat, col, r) /\ rhs' = swap(rhs, col, r)
            /\ \A k \in col..(n - 1) :
                   ~Gt(Abs(At(At(mat', k), col)), Abs(At(At(mat', col), col)))
       /\ (pc = "eliminate" /\ pc' # "eliminate") =>
            \A j \in 0..col : \A k \in (j + 1)..(n - 1) : IsZero(At(At(mat', k), j))
      ]_vars
C12_Witness ==
    /\ pc = "back" /\ n = 3 /\ ~zeroPivot
    /\ IsZero(a0[1][1]) /\ IsZero(a0[2][1])
    /\ mat[1] = a0[3] /\ rhs[1] = b0[3] /\ b0[3] # b0[1]
    /\ \A j \in 1..2 : \A k \in (j + 1)..3 : IsZero(mat[k][j])
    /\ ~IsZero(a0[2][2]) /\ ~IsZero(a0[3][2])

-----------------------------------------------------------------------------
(* The dynamics functions applied to one snapshot: set_mass_matrix,         *)
(* set_centripetal_matrix, set_grav_matrix (src/math.rs) and deriv          *)
(* (src/logic.rs).  The snapshot is the state y; curr_t is the time         *)
(* argument handed to deriv.                                                *)

\* the NPendulumMath instance that accelerations builds for the state y
snapshot ==
    NPendulumMath_new(n, masses, lengths, full_angles(self, y), full_ang_vels(self, y))

ApplyMassMatrix ==
    /\ pc = "snapshot"
    /\ pc' = "applied"
    /\ out' = [fn |-> "set_mass_matrix", val |-> set_mass_matrix(snapshot)]
    /\ UNCHANGED <<rounding, n, masses, lengths, initial_angles, initial_ang_vels,
                   y, t, sol, curr_t, dt, n_points, t_max, steps, singular, req,
                   resp, mat, rhs, col, x, a0, b0, zeroPivot,
                   evaluated, deriv_calls>>

ApplyCentripetal ==
    /\ pc = "snapshot"
    /\ pc' = "applied"
    /\ out' = [fn |-> "set_centripetal_matrix", val |-> set_centripetal_matrix(snapshot)]
    /\ UNCHANGED <<rounding, n, masses, lengths, initial_angles, initial_ang_vels,
                   y, t, sol, curr_t, dt, n_points, t_max, steps, singular, req,
                   resp, mat, rhs, col, x, a0, b0, zeroPivot,
                   evaluated, deriv_calls>>

ApplyGrav ==
    /\ pc = "snapshot"
    /\ pc' = "applied"
    /\ out' = [fn |-> "set_grav_matrix", val |-> set_grav_matrix(snapshot)]
    /\ UNCHANGED <<rounding, n, masses, lengths, initial_angles, initial_ang_vels,
                   y, t, sol, curr_t, dt, n_points, t_max, steps, singular, req,
                   resp, mat, rhs, col, x, a0, b0, zeroPivot,
                   evaluated, deriv_calls>>

ApplyDeriv ==
    /\ pc = "snapshot"
    /\ pc' = "applied"
    /\ out' = [fn |-> "deriv", val |-> deriv(self, y, curr_t)]
    /\ UNCHANGED <<rounding, n, masses, lengths, initial_angles, initial_ang_vels,
                   y, t, sol, curr_t, dt, n_points, t_max, steps, singular, req,
                   resp, mat, rhs, col, x, a0, b0, zeroPivot,
                   evaluated, deriv_calls>>

\* what the unused slot 0 of masses and lengths may hold
DummyValues == {Num(0), Num(3)}
WithSlot0(v, d) == <<d>> \o Tail(v)
\* the masses vector ends with pendulum n, or holds one more slot
ExtraSlots == {<<>>, <<Num(3)>>}
TimeValues == {Num(0), Num(1)}

\* a solver built by NPendulumSolver::new, which takes any vectors, at some
\* state and time
InitDynamics ==
    /\ rounding \in BOOLEAN
    /\ pc = "snapshot"
    /\ n \in Ns
    /\ masses \in {WithSlot0(v, d) \o e : v \in MassVecs(n), d \in DummyValues,
                                          e \in ExtraSlots}
    /\ lengths \in {WithSlot0(v, d) : v \in LengthVecs(n), d \in DummyValues}
    /\ y \in {Tail(a) \o Tail(w) : a \in AngleVecs(n), w \in VelVecs(n)}
    /\ curr_t \in TimeValues
    /\ initial_angles = <<>> /\ initial_ang_vels = <<>>
    /\ t = <<>> /\ sol = <<>> /\ dt = Zero /\ steps = 0 /\ singular = FALSE
    /\ evaluated = <<>> /\ deriv_calls = 0
    /\ t_max = Zero /\ n_points = 0
    /\ IdleHandler /\ IdleLinear
    /\ out = <<>>

NextDynamics == ApplyMassMatrix \/ ApplyCentripetal \/ ApplyGrav \/ ApplyDeriv

SpecDynamics == InitDynamics /\ [][NextDynamics]_vars

-----------------------------------------------------------------------------
(* Properties of the dynamics functions *)

\* masses of the pendulums from..to, summed in the order of the vector
RECURSIVE SumPendulums(_, _, _)
SumPendulums(ms, from, to) ==
    IF from > to THEN Zero
    ELSE Add(SumPendulums(ms, from, to - 1), At(ms, to))

\* C5: the matrix of set_mass_matrix is symmetric.
C5_MassMatrixSymmetric ==
    (pc = "applied" /\ out.fn = "set_mass_matrix") =>
        /\ Len(out.val) = n
        /\ \A i, j \in 1..n : Len(out.val[i]) = n /\ Eq(out.val[i][j], out.val[j][i])
C5_Witness ==
    /\ pc = "applied" /\ out.fn = "set_mass_matrix"
    /\ ~Eq(out.val[1][1], out.val[n][n])
    /\ ~Eq(out.val[1][n], out.val[1][1])
    /\ ~IsZero(out.val[1][n])
    /\ ~Eq(At(snapshot.angles, 1), At(snapshot.angles, n))
    /\ ~Eq(At(masses, 1), At(masses, n))

\* C9: deriv(y, t) has 2n entries; the first n are the velocities of y in
\* order; the last n are the alpha with M alpha = -(C + G) for the angles and
\* velocities of y (exact arithmetic, positive masses and lengths); the
\* result is the same for every t.
C9_Deriv ==
    (pc = "applied" /\ out.fn = "deriv") =>
        /\ Len(out.val) = 2 * n
        /\ \A i \in 1..n : out.val[i] = y[n + i]
        /\ (~rounding /\ AllPositive(masses, n) /\ AllPositive(lengths, n)) =>
             LET M == set_mass_matrix(snapshot)
                 C == set_centripetal_matrix(snapshot)
                 G == set_grav_matrix(snapshot)
                 alpha == SubSeq(out.val, n + 1, 2 * n)
             IN  \A i \in 1..n :
                    /\ IsFinite(alpha[i])
                    /\ Eq(Dot(M[i], alpha), Neg(Add(C[i], G[i])))
        /\ \A t2 \in TimeValues : deriv(self, y, t2) = out.val
C9_Witness ==
    /\ pc = "applied" /\ out.fn = "deriv"
    /\ ~rounding /\ AllPositive(masses, n) /\ AllPositive(lengths, n)
    /\ curr_t # Zero
    /\ ~Eq(y[1], y[n]) /\ ~IsZero(y[2 * n])
    /\ \A i \in 1..n : ~IsZero(out.val[n + i])

-----------------------------------------------------------------------------
(* src/ui.rs: simulate_handler.  A request carries n, t_max, n_points and   *)
(* three comma-separated lists; a list is modelled as the sequence of its   *)
(* tokens, a token being text that parses as an f64 (ok, with its value) or *)
(* text that does not.  The handler runs NPendulumSolver::solve through the *)
(* actions SolveBegin, SolveStep, SolveReturn above.  The drawing of the    *)
(* trajectory image (lines 132-223) does not enter the response's data and  *)
(* is left out.                                                            *)

\* .split(',').filter_map(|s| s.trim().parse().ok()).collect()
RECURSIVE parse_list(_)
parse_list(tokens) ==
    IF tokens = <<>> THEN <<>>
    ELSE (IF Head(tokens).ok THEN <<Head(tokens).val>> ELSE <<>>)
             \o parse_list(Tail(tokens))

\* let mut full = vec![0.0]; full.extend(v)
with_dummy(v) == <<Zero>> \o v

\* initial_angles_deg.iter().map(|&d| d.to_radians()).collect()
angles_to_radians(deg) == Build(LAMBDA i : to_radians(deg[i]), Len(deg))

\* lines 43-53: the only validation of the handler
HandlerReject ==
    /\ pc = "request"
    /\ Len(parse_list(req.masses)) # req.n
    /\ resp' = [success |-> FALSE, positions |-> <<>>, n |-> 0, limit |-> Zero]
    /\ pc' = "responded"
    /\ UNCHANGED <<rounding, n, masses, lengths, initial_angles, initial_ang_vels,
                   y, t, sol, curr_t, dt, n_points, t_max, steps, singular, req,
                   mat, rhs, col, x, a0, b0, zeroPivot, out,
                   evaluated, deriv_calls>>

\* lines 56-101: the vectors, the solver, the call of solve
HandlerCall ==
    /\ pc = "request"
    /\ Len(parse_list(req.masses)) = req.n
    /\ n' = req.n
    /\ masses' = with_dummy(parse_list(req.masses))
    /\ lengths' = with_dummy(parse_list(req.lengths))
    /\ initial_angles' = with_dummy(angles_to_radians(parse_list(req.initial_angles)))
    /\ initial_ang_vels' = Filled(Zero, req.n + 1)
    /\ t_max' = req.t_max
    /\ n_points' = req.n_points
    /\ pc' = "call"
    /\ UNCHANGED <<rounding, y, t, sol, curr_t, dt, steps, singular, req, resp,
                   mat, rhs, col, x, a0, b0, zeroPivot, out,
                   evaluated, deriv_calls>>

\* logic.rs line 152: &initial_angles[1..n + 1] of a vector with fewer than
\* n + 1 slots panics
SolvePanicSlice ==
    /\ pc = "call"
    /\ Len(initial_angles) < n + 1 \/ Len(initial_ang_vels) < n + 1
    /\ pc' = "panicked"
    /\ UNCHANGED <<rounding, n, masses, lengths, initial_angles, initial_ang_vels,
                   y, t, sol, curr_t, dt, n_points, t_max, steps, singular, req,
                   resp, mat, rhs, col, x, a0, b0, zeroPivot, out,
                   evaluated, deriv_calls>>

\* math.rs line 54: self.lengths[row] of a vector with fewer than n + 1 slots
\* panics in the first derivative evaluation of a step
SolvePanicIndex ==
    /\ pc = "loop"
    /\ steps < num_steps_of(n_points)
    /\ Len(lengths) < n + 1
    /\ pc' = "panicked"
    /\ UNCHANGED <<rounding, n, masses, lengths, initial_angles, initial_ang_vels,
                   y, t, sol, curr_t, dt, n_points, t_max, steps, singular, req,
                   resp, mat, rhs, col, x, a0, b0, zeroPivot, out,
                   evaluated, deriv_calls>>

\* lines 114-129: the x and y of every pendulum of one state
RECURSIVE chain_positions(_, _, _, _, _, _, _)
chain_positions(full_lengths, state, nn, k, curr_x, curr_y, row) ==
    IF k >= nn THEN row
    ELSE \* curr_x += full_lengths[k + 1] * state[k].sin(), curr_y -= ... cos()
         LET x2 == Add(curr_x, Mul(At(full_lengths, k + 1), Sin(At(state, k))))
             y2 == Sub(curr_y, Mul(At(full_lengths, k + 1), Cos(At(state, k))))
         IN  chain_positions(full_lengths, state, nn, k + 1, x2, y2,
                             row \o <<x2, y2>>)

\* lines 104-130 and 226-234: the limit, the positions, the response
HandlerRespond ==
    /\ pc = "returned"
    /\ req # <<>>
    /\ Len(lengths) >= n + 1
    /\ resp' = [success |-> TRUE,
                positions |-> Build(LAMBDA idx :
                                  chain_positions(lengths, out.sol[idx], n, 0, Zero,
                                                  Zero, <<>>),
                                  Len(out.sol)),
                n |-> n,
                limit |-> Add(lsum(SliceFrom(lengths, 1)), Lit(1, 2))]
    /\ pc' = "responded"
    /\ UNCHANGED <<rounding, n, masses, lengths, initial_angles, initial_ang_vels,
                   y, t, sol, curr_t, dt, n_points, t_max, steps, singular, req,
                   mat, rhs, col, x, a0, b0, zeroPivot, out,
                   evaluated, deriv_calls>>

\* line 119: full_lengths[k + 1] of a vector with fewer than n + 1 slots panics
HandlerPanic ==
    /\ pc = "returned"
    /\ req # <<>>
    /\ Len(lengths) < n + 1
    /\ pc' = "panicked"
    /\ UNCHANGED <<rounding, n, masses, lengths, initial_angles, initial_ang_vels,
                   y, t, sol, curr_t, dt, n_points, t_max, steps, singular, req,
                   resp, mat, rhs, col, x, a0, b0, zeroPivot, out,
                   evaluated, deriv_calls>>

\* a token that parses, and one that does not
Tok(v) == [ok |-> TRUE, val |-> v]
BadTok == [ok |-> FALSE, val |-> Zero]
\* lists of k - 1, k and k + 1 numbers, and k numbers around a bad token
TokenLists(v, k) ==
    {Build(LAMBDA i : Tok(v), len) : len \in (k - 1)..(k + 1)}
        \cup {<<Tok(v), BadTok>> \o Build(LAMBDA i : Tok(v), k - 1)}

\* the request has been deserialized
InitUi ==
    /\ rounding = TRUE
    /\ pc = "request"
    /\ \E k \in Ns, np \in 1..2 :
         req \in [n : {k}, masses : TokenLists(Num(1), k),
                  lengths : TokenLists(Num(1), k),
                  initial_angles : TokenLists(Num(90), k),
                  t_max : {Num(1)}, n_points : {np}]
    /\ resp = <<>>
    /\ n = 0 /\ masses = <<>> /\ lengths = <<>> /\ initial_angles = <<>>
    /\ initial_ang_vels = <<>> /\ t_max = Zero /\ n_points = 0
    /\ IdleSolve /\ IdleLinear
    /\ out = <<>>

NextUi ==
    \/ HandlerReject \/ HandlerCall
    \/ SolveBegin \/ SolveStep \/ SolveReturn
    \/ SolvePanicSlice \/ SolvePanicIndex
    \/ HandlerRespond \/ HandlerPanic

SpecUi == InitUi /\ [][NextUi]_vars

-----------------------------------------------------------------------------
(* Properties of simulate_handler *)

\* the request names n but one of its lists parses to another number of values
Mismatch(r) ==
    \/ Len(parse_list(r.masses)) # r.n
    \/ Len(parse_list(r.lengths)) # r.n
    \/ Len(parse_list(r.initial_angles)) # r.n

\* C4: a request whose parsed masses, lengths or initial angles are not n in
\* number is rejected before the solver is invoked: the handler is either
\* still at the request or has answered success = false; solve is never
\* entered for it.
C4_MismatchRejected ==
    (req # <<>> /\ Mismatch(req)) =>
        /\ pc \in {"request", "responded"}
        /\ pc = "responded" => resp.success = FALSE

====
